---- MODULE Spec2Model ----
(***************************************************************************)
(* E-ink bitmap generator (server/src/bitmap.rs): the EpdBitmap buffer and *)
(* its EPBM serialisation, the test pattern, the CIELAB quantizer and the  *)
(* Atkinson error-diffusion conversion of render_svg_to_bitmap.            *)
(*                                                                         *)
(* Numbers.  The error grid holds f32 sums of (u8 - u8) * 0.125; every     *)
(* such sum is a multiple of 1/8 below 2^24 and therefore exact in f32, so *)
(* the grid is kept here in integer eighths.  The colour science (HSL      *)
(* boost, sRGB -> XYZ -> CIELAB, Delta E) is f32 arithmetic in the source; *)
(* it is evaluated here in exact rational arithmetic (HSL) and in fixed    *)
(* point (CIELAB * 100), which differs from f32 only by rounding noise.    *)
(***************************************************************************)
EXTENDS Integers, Sequences, FiniteSets, TLC

\* ------------------------------------------------------------ bounds
\* Largest width and height of the bitmaps of the object-level operations.
MaxW == 3
MaxH == 2
\* A dimension above 255, so that the high byte of the header is exercised.
WideDim == 258
\* A width of at least six, so that the test pattern draws its colour bars.
BarDim == 7
\* Largest width and height of a converted image.
MaxImgW == 4
MaxImgH == 3
\* Number of direct set_pixel calls a caller makes.
MaxSets == 2
\* Number of conversions in a row in the conversion specification.
MaxCalls == 2
\* Width and height of the images two threads convert at once.
ParW == 2
ParH == 2
\* Width and height the request handlers convert to (800 x 480 in main.rs,
\* scaled down).
HandlerW == 6
HandlerH == 2
\* Largest distance in the distance vectors the selection is tried on.
MaxDist == 2
\* Largest width and height of the bitmaps decoded for debugging.
MaxPngW == 2
MaxPngH == 2

\* Largest width and height of the test patterns.
MaxPatW == 13
MaxPatH == 5

\* Distance between the channel values the quantizer specification tries.
QuantStep == 17

\* ------------------------------------------------------------ variables
VARIABLES
  bmp,           \* the bitmap the caller holds (main.rs: `bmp`)
  live,          \* whether the caller holds a bitmap yet
  bytes,         \* the Vec<u8> the last to_bytes returned
  last,          \* the last call made and how it ended
  nset,          \* direct set_pixel calls made so far
  panic,         \* an indexed access went outside its vector
  pc,            \* render_svg_to_bitmap: "idle", "loop", "done", "panicked"
  width,         \* render_svg_to_bitmap: argument width
  height,        \* render_svg_to_bitmap: argument height
  pixmap,        \* the rendered RGB pixels, row-major
  bitmap,        \* render_svg_to_bitmap: local `bitmap`
  errors,        \* render_svg_to_bitmap: local `errors`
  x,             \* loop variable x
  y,             \* loop variable y
  color_counts,  \* local `color_counts`: colour -> pixels (0: no entry)
  hist,          \* per processed pixel: what the loop body read and chose
  stdout,        \* what the last call printed: the statistics' colours, in order
  io,            \* files the last call read or wrote
  runs,          \* finished conversions: input and result
  quant,         \* the last direct call of the quantizer: input and result
  scenario,      \* calls of new(2,1); set_pixel(0,0,White); set_pixel(1,0,Black);
                 \* to_bytes made in a row so far
  par,           \* two conversions running at once: each thread's locals,
                 \* and the debug PNG file they both write
  png,           \* the last call of bitmap_to_png: its argument and result
  req            \* two requests to one endpoint served at once: each
                 \* handler's locals, and the files they share

\* ------------------------------------------------------------ helpers
Min(a, b) == IF a < b THEN a ELSE b
Max(a, b) == IF a > b THEN a ELSE b
Abs(a) == IF a < 0 THEN -a ELSE a
\* f32::clamp(0.0, 255.0) followed by `as u8`, on an integer
ClampU8(v) == Min(255, Max(0, v))
U16Max == 65535

\* ------------------------------------------------------------ palette
\* const PALETTE: approximate RGB of the six pigments, by palette index + 1
PALETTE ==
  << <<0, 0, 0>>, <<255, 255, 255>>, <<0, 255, 0>>,
     <<0, 0, 255>>, <<255, 0, 0>>, <<255, 255, 0>> >>

\* const PALETTE_LAB, each component times 100
PALETTE_LAB ==
  << <<0, 0, 0>>, <<10000, 0, 0>>, <<8773, -8618, 8318>>,
     <<3230, 7919, -10786>>, <<5324, 8009, 6720>>, <<9714, -2155, 9448>> >>

\* enum EpdColor, #[repr(u8)]
Black == 0
White == 1
Green == 2
Blue == 3
Red == 4
Yellow == 5
EpdColor == {Black, White, Green, Blue, Red, Yellow}

\* epd_color_to_rgb
epd_color_to_rgb(color) == PALETTE[color + 1]

\* ------------------------------------------------------------ colour science
\* srgb_to_linear(c) * 10^5 for c = 0..255 (entry c + 1): c/255/12.92 up to
\* 0.04045, ((c/255 + 0.055)/1.055)^2.4 above.
SrgbLinearTable == <<
    0, 30, 61, 91, 121, 152, 182, 212, 243, 273, 304, 335, 368, 402, 439, 478,
    518, 561, 605, 651, 700, 750, 802, 857, 913, 972, 1033, 1096, 1161, 1229, 1298, 1370,
    1444, 1521, 1600, 1681, 1764, 1850, 1938, 2029, 2122, 2217, 2315, 2416, 2519, 2624, 2732, 2843,
    2956, 3071, 3190, 3310, 3434, 3560, 3689, 3820, 3955, 4092, 4231, 4374, 4519, 4667, 4817, 4971,
    5127, 5286, 5448, 5613, 5781, 5951, 6125, 6301, 6480, 6663, 6848, 7036, 7227, 7421, 7619, 7819,
    8022, 8228, 8438, 8650, 8866, 9084, 9306, 9531, 9759, 9990, 10224, 10462, 10702, 10946, 11193, 11444,
    11697, 11954, 12214, 12477, 12744, 13014, 13287, 13563, 13843, 14126, 14413, 14703, 14996, 15293, 15593, 15896,
    16203, 16513, 16827, 17144, 17465, 17789, 18116, 18447, 18782, 19120, 19462, 19807, 20156, 20508, 20864, 21223,
    21586, 21953, 22323, 22697, 23074, 23455, 23840, 24228, 24620, 25016, 25415, 25818, 26225, 26636, 27050, 27468,
    27889, 28315, 28744, 29177, 29614, 30054, 30499, 30947, 31399, 31855, 32314, 32778, 33245, 33716, 34191, 34670,
    35153, 35640, 36131, 36625, 37124, 37626, 38133, 38643, 39157, 39676, 40198, 40724, 41254, 41789, 42327, 42869,
    43415, 43966, 44520, 45079, 45641, 46208, 46778, 47353, 47932, 48515, 49102, 49693, 50289, 50888, 51492, 52100,
    52712, 53328, 53948, 54572, 55201, 55834, 56471, 57112, 57758, 58408, 59062, 59720, 60383, 61050, 61721, 62396,
    63076, 63760, 64448, 65141, 65837, 66539, 67244, 67954, 68669, 69387, 70110, 70838, 71569, 72306, 73046, 73791,
    74540, 75294, 76052, 76815, 77582, 78354, 79130, 79910, 80695, 81485, 82279, 83077, 83880, 84687, 85499, 86316,
    87137, 87962, 88792, 89627, 90466, 91310, 92158, 93011, 93869, 94731, 95597, 96469, 97345, 98225, 99110, 100000 >>

srgb_to_linear(c) == SrgbLinearTable[c + 1]

\* rgb_to_xyz: the D65 matrix (coefficients * 10^4) on the linear channels;
\* the result is X, Y, Z / 100 scaled by 10^9.
rgb_to_xyz(r, g, b) ==
  LET r_lin == srgb_to_linear(r)
      g_lin == srgb_to_linear(g)
      b_lin == srgb_to_linear(b)
  IN  << r_lin * 4125 + g_lin * 3576 + b_lin * 1804,
         r_lin * 2127 + g_lin * 7152 + b_lin * 722,
         r_lin * 193 + g_lin * 1192 + b_lin * 9503 >>

\* a * 10^5 / c without leaving 32 bits (c < 214748)
ScaledDiv(a, c) ==
  (a \div c) * 100000 + (((a % c) * 10000) \div c) * 10

\* One step of a binary search for the cube root: f with the bit added if
\* that stays at or below n (1290^3 is the largest cube below 2^31).
CubeRootBit(n, f, bit) ==
  IF f + bit <= 1290 /\ (f + bit) * (f + bit) * (f + bit) <= n THEN f + bit ELSE f

\* f32::cbrt on integers: the largest f with f^3 <= n, for n < 2^31
CubeRoot(n) ==
  LET f10 == CubeRootBit(n, 0, 1024)
      f9 == CubeRootBit(n, f10, 512)
      f8 == CubeRootBit(n, f9, 256)
      f7 == CubeRootBit(n, f8, 128)
      f6 == CubeRootBit(n, f7, 64)
      f5 == CubeRootBit(n, f6, 32)
      f4 == CubeRootBit(n, f5, 16)
      f3 == CubeRootBit(n, f4, 8)
      f2 == CubeRootBit(n, f3, 4)
      f1 == CubeRootBit(n, f2, 2)
  IN  CubeRootBit(n, f1, 1)

\* The cube-root branch of xyz_to_lab_component: f = CubeRoot(t), refined to
\* one more decimal digit between f^3 and (f + 1)^3.
CbrtBranch(t, f) == 10 * f + ((t - f * f * f) * 10) \div (3 * f * f + 3 * f + 1)

\* xyz_to_lab_component: t is scaled by 10^9, the result by 10^4.
\* DELTA^3 = (6/29)^3 = 0.008856452; 1/(3 DELTA^2) = 7.787; 4/29 = 0.1379.
xyz_to_lab_component(t) ==
  IF t > 8856452 THEN CbrtBranch(t, CubeRoot(t))
  ELSE ((t \div 100) * 7787) \div 1000000 + 1379

\* l = 116 fy - 16, a = 500 (fx - fy), b = 200 (fy - fz), each times 100
LabOf(fx, fy, fz) == << (116 * fy - 160000) \div 100, 5 * (fx - fy), 2 * (fy - fz) >>

\* xyz_to_lab: white point XN = 95.047, YN = 100, ZN = 108.883
xyz_to_lab(xyz) ==
  LabOf(xyz_to_lab_component(ScaledDiv(xyz[1], 95047)),
        xyz_to_lab_component(xyz[2]),
        xyz_to_lab_component(ScaledDiv(xyz[3], 108883)))

rgb_to_lab(r, g, b) == xyz_to_lab(rgb_to_xyz(r, g, b))

\* delta_e squared (the square root is monotone, the order is the same)
delta_e(lab1, lab2) ==
  (lab1[1] - lab2[1]) * (lab1[1] - lab2[1])
  + (lab1[2] - lab2[2]) * (lab1[2] - lab2[2])
  + (lab1[3] - lab2[3]) * (lab1[3] - lab2[3])

\* f32::round (half away from zero) of p/q >= 0, then clamp(0, 255) as u8
RoundU8(p, q) == ClampU8((2 * p + q) \div (2 * q))

\* rgb_to_hsl and hsl_to_rgb in exact arithmetic.  With max and min the
\* extreme channels, delta = max - min > 0 and S = max + min:
\*   l = S / 510,  s = delta / D with D = 255 - |S - 255|,
\*   h / 60 = n / delta with n as computed by Hue,
\*   c = (1 - |2l - 1|) * min(1.2 s, 1) = C5 / 1275, C5 = min(6 delta, 5 D),
\*   x = c * k / delta with k = delta - |n mod 2 delta - delta|,
\*   m = l - c / 2 = (5 S - C5) / 2550.

\* rgb_to_hsl, the hue: h / 60 * delta, in [0, 6 delta)
Hue(r, g, b, max, delta) ==
  LET n == IF max = r THEN g - b
           ELSE IF max = g THEN (b - r) + 2 * delta
           ELSE (r - g) + 4 * delta
  IN  IF n < 0 THEN n + 6 * delta ELSE n

\* 1275 * c for the boosted saturation min(1.2 s, 1.0)
Chroma(delta, S) == Min(6 * delta, 5 * (255 - Abs(S - 255)))

\* hsl_to_rgb, the choice of (r, g, b) among c + m, x + m, m by the hue
HueSector(n, delta, vc, vx, v0) ==
  IF n < delta THEN <<vc, vx, v0>>
  ELSE IF n < 2 * delta THEN <<vx, vc, v0>>
  ELSE IF n < 3 * delta THEN <<v0, vc, vx>>
  ELSE IF n < 4 * delta THEN <<v0, vx, vc>>
  ELSE IF n < 5 * delta THEN <<vx, v0, vc>>
  ELSE <<vc, v0, vx>>

\* hsl_to_rgb
hsl_to_rgb(n, delta, S, C5) ==
  HueSector(n, delta,
            RoundU8(C5 + 5 * S, 10),
            RoundU8(2 * C5 * (delta - Abs((n % (2 * delta)) - delta))
                      + (5 * S - C5) * delta, 10 * delta),
            RoundU8(5 * S - C5, 10))

\* boost_saturation(r, g, b, 1.2)
boost_saturation(r, g, b) ==
  LET max == Max(Max(r, g), b)
      min == Min(Min(r, g), b)
  IN  IF max = min THEN <<max, max, max>>
      ELSE hsl_to_rgb(Hue(r, g, b, max, max - min), max - min, max + min,
                      Chroma(max - min, max + min))

\* a comparison that lets the later of two equal entries win
MinByLast(dist, best, idx) == IF dist[idx] <= dist[best] THEN idx ELSE best

\* One comparison of Iterator::min_by: the later entry replaces the best so
\* far only when it is strictly nearer, so the first of equals wins.
MinBy(dist, best, idx) == IF dist[idx] < dist[best] THEN idx ELSE best

\* Iterator::min_by over the six distances, in palette order
Nearest(dist) ==
  MinBy(dist, MinBy(dist, MinBy(dist, MinBy(dist, MinBy(dist, 1, 2), 3), 4), 5), 6)

\* delta_e to every palette entry
Distances(lab) == [idx \in 1..6 |-> delta_e(lab, PALETTE_LAB[idx])]

LabOfRgb(rgb) == rgb_to_lab(rgb[1], rgb[2], rgb[3])

\* a quantizer that returns the position in `colors` counted from one
rgb_to_epd_color_from_one(r, g, b) ==
  Nearest(Distances(LabOfRgb(boost_saturation(r, g, b))))

\* rgb_to_epd_color: boost, convert to CIELAB, nearest palette entry
rgb_to_epd_color(r, g, b) ==
  Nearest(Distances(LabOfRgb(boost_saturation(r, g, b)))) - 1

\* ------------------------------------------------------------ EpdBitmap
\* struct EpdBitmap { width: u16, height: u16, data: Vec<u8> }; data[i] of
\* the source is data[i + 1] here.

\* a constructor that fills the buffer with the first colour of the enum
EpdBitmap_new_black(w, h) ==
  LET size == w * h
  IN  [width |-> w, height |-> h, data |-> [i \in 1..size |-> Black]]

\* EpdBitmap::new
EpdBitmap_new(w, h) ==
  LET size == w * h
  IN  [width |-> w, height |-> h, data |-> [i \in 1..size |-> White]]

\* a bounds test that admits the first coordinate past each edge
InBitmapInclusive(b, px, py) == px <= b.width /\ py <= b.height

\* the bounds test of set_pixel
InBitmap(b, px, py) == px < b.width /\ py < b.height

\* a set_pixel that stores the colour's ordinal counted from one
set_pixel_from_one(b, px, py, color) ==
  IF InBitmap(b, px, py)
  THEN LET index == py * b.width + px
       IN  IF index < Len(b.data)
           THEN [bmp |-> [b EXCEPT !.data[index + 1] = color + 1], panic |-> FALSE]
           ELSE [bmp |-> b, panic |-> TRUE]
  ELSE [bmp |-> b, panic |-> FALSE]

\* a set_pixel that tests x against the height and y against the width
set_pixel_swapped_test(b, px, py, color) ==
  IF px < b.height /\ py < b.width
  THEN LET index == py * b.width + px
       IN  IF index < Len(b.data)
           THEN [bmp |-> [b EXCEPT !.data[index + 1] = color], panic |-> FALSE]
           ELSE [bmp |-> b, panic |-> TRUE]
  ELSE [bmp |-> b, panic |-> FALSE]

\* a set_pixel that lays the cells out column by column
set_pixel_column_major(b, px, py, color) ==
  IF InBitmap(b, px, py)
  THEN LET index == px * b.height + py
       IN  IF index < Len(b.data)
           THEN [bmp |-> [b EXCEPT !.data[index + 1] = color], panic |-> FALSE]
           ELSE [bmp |-> b, panic |-> TRUE]
  ELSE [bmp |-> b, panic |-> FALSE]

\* EpdBitmap::set_pixel: the bitmap after the call, and whether the indexed
\* store self.data[index] panicked (index outside the vector).
set_pixel(b, px, py, color) ==
  IF InBitmap(b, px, py)
  THEN LET index == py * b.width + px
       IN  IF index < Len(b.data)
           THEN [bmp |-> [b EXCEPT !.data[index + 1] = color], panic |-> FALSE]
           ELSE [bmp |-> b, panic |-> TRUE]
  ELSE [bmp |-> b, panic |-> FALSE]

\* a header writer that stores the low byte first
to_le_bytes(v) == << v % 256, v \div 256 >>

\* u16::to_be_bytes
to_be_bytes(v) == << v \div 256, v % 256 >>

\* a serializer that writes the height before the width
to_bytes_height_first(b) ==
  <<69, 80, 66, 77>> \o to_be_bytes(b.height) \o to_be_bytes(b.width) \o b.data

\* EpdBitmap::to_bytes: b"EPBM", width, height, pixel data
to_bytes(b) ==
  <<69, 80, 66, 77>> \o to_be_bytes(b.width) \o to_be_bytes(b.height) \o b.data

\* u16::from_be_bytes, as a reader of the format does it
from_be_bytes(hi, lo) == hi * 256 + lo

\* The reader's side of the EPBM format: the magic, width and height stored
\* in the first eight bytes.
decode_header(bs) ==
  [magic |-> SubSeq(bs, 1, 4),
   width |-> from_be_bytes(bs[5], bs[6]),
   height |-> from_be_bytes(bs[7], bs[8])]

\* set_pixel calls <<x, y, color>> applied in order to bitmap b: a cell ends
\* with the colour of the last call that stores to it, and the sequence
\* panics if one of the stores does.
SetPixels(b, writes) ==
  LET Target(n) ==
        IF InBitmap(b, writes[n][1], writes[n][2])
        THEN writes[n][2] * b.width + writes[n][1] ELSE -1
      Hits(i) == {n \in DOMAIN writes : Target(n) = i}
      Last(S) == CHOOSE n \in S : \A m \in S : m <= n
  IN  [bmp |-> [b EXCEPT !.data =
                  [i \in DOMAIN b.data |->
                     IF Hits(i - 1) = {} THEN b.data[i]
                     ELSE writes[Last(Hits(i - 1))][3]]],
       panic |-> \E n \in DOMAIN writes : Target(n) >= Len(b.data)]

\* The set_pixel calls of `for y in y1..y2 { for x in x1..x2 { .. } }`.
RectWrites(x1, x2, y1, y2, color) ==
  LET cols == Max(x2 - x1, 0)
      rows == Max(y2 - y1, 0)
  IN  [n \in 1..(cols * rows) |->
         << x1 + ((n - 1) % cols), y1 + ((n - 1) \div cols), color >>]

\* a test pattern whose last bar runs to the right edge
generate_test_bitmap_wide_last_bar(w, h) ==
  LET bar_width == w \div 6
      colors == <<Black, White, Green, Blue, Red, Yellow>>
      BarWrites(i) ==
        RectWrites(i * bar_width, IF i = 5 THEN w ELSE Min((i + 1) * bar_width, w),
                   0, h \div 2, colors[i + 1])
      bars == BarWrites(0) \o BarWrites(1) \o BarWrites(2)
              \o BarWrites(3) \o BarWrites(4) \o BarWrites(5)
      bottom == RectWrites(0, w, h \div 2, h, White)
  IN  SetPixels(EpdBitmap_new(w, h), bars \o bottom)

\* generate_test_bitmap: six colour bars in the top half, white below
generate_test_bitmap(w, h) ==
  LET bar_width == w \div 6
      colors == <<Black, White, Green, Blue, Red, Yellow>>
      BarWrites(i) ==
        RectWrites(i * bar_width, Min((i + 1) * bar_width, w), 0, h \div 2,
                   colors[i + 1])
      bars == BarWrites(0) \o BarWrites(1) \o BarWrites(2)
              \o BarWrites(3) \o BarWrites(4) \o BarWrites(5)
      bottom == RectWrites(0, w, h \div 2, h, White)
  IN  SetPixels(EpdBitmap_new(w, h), bars \o bottom)

\* ------------------------------------------------------------ debug decoding
\* a lookup that clamps an unknown byte to the last palette entry
decode_color_clamped(v) == PALETTE[Min(v, Len(PALETTE) - 1) + 1]

\* bitmap_to_png: "Map color value back to RGB using palette"
decode_color(v) ==
  IF v < Len(PALETTE) THEN PALETTE[v + 1] ELSE <<128, 128, 128>>

\* tiny_skia ColorU8::premultiply: a pixel of alpha 255 is kept as it is, the
\* channels of any other are scaled by alpha / 255
premultiply(px) ==
  LET Scale(c, a) == ((c * a + 128) + ((c * a + 128) \div 256)) \div 256
  IN  IF px[4] = 255 THEN px
      ELSE << Scale(px[1], px[4]), Scale(px[2], px[4]), Scale(px[3], px[4]), px[4] >>

\* ColorU8::from_rgba(r, g, b, 255) of a decoded colour
OpaquePixel(c) == premultiply(<<c[1], c[2], c[3], 255>>)

\* bitmap_to_png up to the PNG encoding: whether the pixmap could be created
\* (not for a zero width or height), and its pixels <<r, g, b, a>> in
\* row-major order.
bitmap_to_png(b) ==
  IF b.width = 0 \/ b.height = 0
  THEN [ok |-> FALSE, pixels |-> <<>>]
  ELSE [ok |-> TRUE,
        pixels |-> [i \in 1..(b.width * b.height) |-> OpaquePixel(decode_color(b.data[i]))]]

\* ------------------------------------------------------------ diffusion
\* a kernel whose first entry carries two eighths
ATKINSON_KERNEL_heavy ==
  << <<1, 0, 2>>, <<2, 0, 1>>, <<-1, 1, 1>>,
     <<0, 1, 1>>, <<1, 1, 1>>, <<0, 2, 1>> >>

\* a kernel whose second entry points to the pixel on the left
ATKINSON_KERNEL_backward ==
  << <<1, 0, 1>>, <<-1, 0, 1>>, <<-1, 1, 1>>,
     <<0, 1, 1>>, <<1, 1, 1>>, <<0, 2, 1>> >>

\* a kernel that passes a quarter of the error to each neighbour
ATKINSON_KERNEL_quarters ==
  << <<1, 0, 2>>, <<2, 0, 2>>, <<-1, 1, 2>>,
     <<0, 1, 2>>, <<1, 1, 2>>, <<0, 2, 2>> >>

\* const ATKINSON_KERNEL: (dx, dy, weight), the weight in eighths
ATKINSON_KERNEL ==
  << <<1, 0, 1>>, <<2, 0, 1>>, <<-1, 1, 1>>,
     <<0, 1, 1>>, <<1, 1, 1>>, <<0, 2, 1>> >>

\* an error grid kept from the first finished conversion of the same size
ReusedErrors(w, h) ==
  IF runs # <<>> /\ runs[1].width = w /\ runs[1].height = h
  THEN runs[1].errors
  ELSE [row \in 1..h |-> [col \in 1..w |-> <<0, 0, 0>>]]

\* vec![vec![(0.0, 0.0, 0.0); width]; height]: errors[y][x] of the source is
\* errors[y + 1][x + 1] here, in eighths.
ZeroErrors(w, h) == [row \in 1..h |-> [col \in 1..w |-> <<0, 0, 0>>]]

\* a bounds test without the lower bound on the column
InBoundsRight(nx, ny, w, h) == nx < w /\ ny >= 0 /\ ny < h

\* the bounds test on a diffusion target
InBounds(nx, ny, w, h) == nx >= 0 /\ nx < w /\ ny >= 0 /\ ny < h

\* One iteration of the loop over ATKINSON_KERNEL, for entry i: the grid
\* after it, and whether the indexed access errors[ny][nx] panicked.
DiffuseTo(st, i, px, py, w, h, quant_err) ==
  LET nx == px + ATKINSON_KERNEL[i][1]
      ny == py + ATKINSON_KERNEL[i][2]
      weight == ATKINSON_KERNEL[i][3]
  IN  IF st.panic \/ ~InBounds(nx, ny, w, h) THEN st
      ELSE IF (ny + 1) \in DOMAIN st.errors /\ (nx + 1) \in DOMAIN st.errors[ny + 1]
      THEN [errors |->
              [st.errors EXCEPT ![ny + 1][nx + 1] =
                 << @[1] + quant_err[1] * weight,
                    @[2] + quant_err[2] * weight,
                    @[3] + quant_err[3] * weight >>],
            panic |-> FALSE]
      ELSE [errors |-> st.errors, panic |-> TRUE]

\* `for &(dx, dy, weight) in &ATKINSON_KERNEL`: the six entries in order
Diffuse(errs, px, py, w, h, quant_err) ==
  LET s0 == [errors |-> errs, panic |-> FALSE]
      s1 == DiffuseTo(s0, 1, px, py, w, h, quant_err)
      s2 == DiffuseTo(s1, 2, px, py, w, h, quant_err)
      s3 == DiffuseTo(s2, 3, px, py, w, h, quant_err)
      s4 == DiffuseTo(s3, 4, px, py, w, h, quant_err)
      s5 == DiffuseTo(s4, 5, px, py, w, h, quant_err)
  IN  DiffuseTo(s5, 6, px, py, w, h, quant_err)

\* (pixel + err).clamp(0.0, 255.0) as u8, per channel; err in eighths
AddError(pixel, err) ==
  << ClampU8((8 * pixel[1] + err[1]) \div 8),
     ClampU8((8 * pixel[2] + err[2]) \div 8),
     ClampU8((8 * pixel[3] + err[3]) \div 8) >>

\* The loop body once the colour is chosen: the quantization error against
\* the colour's RGB and its diffusion.
DitherColor(err, rgb, color, errs, px, py, w, h) ==
  LET c == epd_color_to_rgb(color)
      quant_err == << rgb[1] - c[1], rgb[2] - c[2], rgb[3] - c[3] >>
      d == Diffuse(errs, px, py, w, h, quant_err)
  IN  [err |-> err, rgb |-> rgb, color |-> color,
       quant_err |-> quant_err, errors |-> d.errors, panic |-> d.panic]

\* a loop body that takes the quantization error from the boosted colour
DitherRgbBoosted(err, rgb, errs, px, py, w, h) ==
  DitherColor(err, boost_saturation(rgb[1], rgb[2], rgb[3]),
              rgb_to_epd_color(rgb[1], rgb[2], rgb[3]), errs, px, py, w, h)

\* The loop body once the value to quantize is known.
DitherRgb(err, rgb, errs, px, py, w, h) ==
  DitherColor(err, rgb, rgb_to_epd_color(rgb[1], rgb[2], rgb[3]), errs, px, py, w, h)

\* The body of the pixel loop for the pixel at (px, py) with colour `pixel`:
\* the error read, the value quantized, the colour chosen, the quantization
\* error, the grid after the diffusion.
DitherStep(pixel, errs, px, py, w, h) ==
  DitherRgb(errs[py + 1][px + 1], AddError(pixel, errs[py + 1][px + 1]),
            errs, px, py, w, h)

\* the position after (px, py) when the columns are walked top to bottom
NextPosColumns(px, py, w, h) == IF py + 1 < h THEN <<px, py + 1>> ELSE <<px + 1, 0>>

\* a loop that starts the same row again at the end of a row
NextPosSameRow(px, py, w, h) == IF px + 1 < w THEN <<px + 1, py>> ELSE <<0, py>>

\* a loop over `0..width - 1`, which leaves out the last column
NextPosShortRow(px, py, w, h) == IF px + 2 < w THEN <<px + 1, py>> ELSE <<0, py + 1>>

\* `for y in 0..height { for x in 0..width {`: the position after (px, py)
NextPos(px, py, w, h) == IF px + 1 < w THEN <<px + 1, py>> ELSE <<0, py + 1>>

\* The pixel loop as a function of the image: the bitmap it leaves.
RECURSIVE RunDither(_, _, _, _, _, _)
RunDither(pixels, w, h, pos, errs, b) ==
  IF pos[2] >= h \/ pos[1] >= w THEN b
  ELSE LET s == DitherStep(pixels[pos[2] * w + pos[1] + 1], errs, pos[1], pos[2], w, h)
       IN  RunDither(pixels, w, h, NextPos(pos[1], pos[2], w, h), s.errors,
                     set_pixel(b, pos[1], pos[2], s.color).bmp)

Convert(pixels, w, h) ==
  RunDither(pixels, w, h, <<0, 0>>, ZeroErrors(w, h), EpdBitmap_new(w, h))

\* ------------------------------------------------------------ state
apiVars == <<bmp, live, bytes, nset>>
loopVars == <<width, height, pixmap, bitmap, errors, x, y, color_counts, hist>>
vars == <<bmp, live, bytes, last, nset, panic, pc, width, height, pixmap,
          bitmap, errors, x, y, color_counts, hist, stdout, io, runs, quant,
          scenario, par, png, req>>

NoBitmap == [width |-> 0, height |-> 0, data |-> <<>>]
NoCounts == [c \in EpdColor |-> 0]
NoCall == [rgb |-> <<>>, dist |-> <<>>, color |-> White]

\* The threads that may convert at once, and a thread that has not called.
Threads == {1, 2}
NoThread ==
  [pc |-> "idle", pixmap |-> <<>>, bitmap |-> NoBitmap, errors |-> <<>>,
   x |-> 0, y |-> 0, overlap |-> FALSE]
NoThreads == [th |-> [t \in Threads |-> NoThread], debug_png |-> <<>>]

\* A handler that has not been entered, and two of them with the files they
\* share: the temporary SVG file and the debug PNG of the conversion.
NoRequest ==
  [pc |-> "idle", svg_content |-> "none", svg_data |-> "none", bitmap |-> NoBitmap]
NoRequests ==
  [h |-> [t \in Threads |-> NoRequest], temp_svg |-> "none", debug_png |-> "none"]

\* No call of bitmap_to_png yet.
NoPng == [called |-> FALSE, bitmap |-> NoBitmap, ok |-> FALSE, pixels |-> <<>>]

Init ==
  /\ bmp = NoBitmap /\ live = FALSE /\ bytes = <<>>
  /\ last = [op |-> "none", res |-> "none"]
  /\ nset = 0 /\ panic = FALSE
  /\ pc = "idle" /\ width = 0 /\ height = 0 /\ pixmap = <<>>
  /\ bitmap = NoBitmap /\ errors = <<>> /\ x = 0 /\ y = 0
  /\ color_counts = NoCounts /\ hist = <<>>
  /\ stdout = <<>> /\ io = {} /\ runs = <<>>
  /\ quant = NoCall /\ scenario = 0
  /\ par = NoThreads /\ png = NoPng /\ req = NoRequests

\* ------------------------------------------------------------ inputs
\* Dimensions a caller passes to new: the small ones and two with a side
\* above 255.
NewDims ==
  {<<w, h>> : w \in 0..MaxW, h \in 0..MaxH} \cup {<<WideDim, 1>>, <<1, WideDim>>}

\* Dimensions a caller passes to generate_test_bitmap: the small ones and one
\* wide enough for the colour bars.
TestDims ==
  {<<w, h>> : w \in 0..MaxW, h \in 0..MaxH} \cup {<<BarDim, 2>>}

\* Coordinates a caller passes to set_pixel: the first two, the last valid
\* one, the first invalid one, the largest u16.
XCoords == {0, 1, Max(bmp.width - 1, 0), bmp.width, U16Max}
YCoords == {0, 1, Max(bmp.height - 1, 0), bmp.height, U16Max}

\* Pixel colours of rendered images: the six palette colours and three others.
PixelSamples ==
  { PALETTE[i] : i \in 1..6 }
    \cup { <<128, 128, 128>>, <<0, 255, 255>>, <<200, 120, 40>> }

UniformImages(w, h) == { [i \in 1..(w * h) |-> p] : p \in PixelSamples }

\* Colours of a single pixel that differs from the rest of its image.
SpotSamples == { <<255, 255, 0>>, <<0, 0, 0>>, <<128, 128, 128>> }

\* One colour everywhere, but for one pixel (none, where the colours agree).
SpotImages(w, h) ==
  { [i \in 1..(w * h) |-> IF i = spot THEN a ELSE p] :
      p \in PixelSamples, a \in SpotSamples, spot \in 1..(w * h) }

SvgInput(file, w, h, pixels) ==
  [file |-> file, width |-> w, height |-> h, pixels |-> pixels]

\* What a caller of the object-level operations converts.
ApiInputs ==
  { SvgInput("missing", 1, 1, <<>>), SvgInput("malformed", 1, 1, <<>>) }
    \cup { SvgInput("ok", d[1], d[2], <<>>) : d \in {<<0, 0>>, <<0, 1>>, <<1, 0>>} }
    \cup UNION { { SvgInput("ok", w, h, img) : img \in UniformImages(w, h) } :
                 w \in 1..MaxW, h \in 1..MaxH }

\* What the conversion specification converts: any small image first, then
\* the same input again.
ImageInputs ==
  IF runs = <<>>
  THEN UNION { { SvgInput("ok", w, h, img) : img \in SpotImages(w, h) } :
               w \in 1..MaxImgW, h \in 1..MaxImgH }
  ELSE IF Len(runs) < MaxCalls
  THEN { SvgInput("ok", runs[1].width, runs[1].height, runs[1].pixmap) }
  ELSE {}

\* What the loop specification converts: images of one colour, of every size
\* up to the largest.
LoopInputs ==
  UNION { { SvgInput("ok", w, h, img) : img \in UniformImages(w, h) } :
          w \in 1..MaxImgW, h \in 1..MaxImgH }

\* Dimensions of the test patterns: none, narrower than six, with bars one
\* and two pixels wide, with and without columns left over, of even and odd
\* height.
PatternDims == {<<w, h>> : w \in 0..MaxPatW, h \in 0..MaxPatH}

\* Channel values of the colours the quantizer specification tries.
Channel == {v \in 0..255 : v % QuantStep = 0}

\* Pixel colours of the images converted at once: none is a palette colour,
\* so every pixel leaves an error behind.
ParSamples == { <<128, 128, 128>>, <<0, 255, 255>>, <<200, 120, 40>> }

\* One colour everywhere but for the first pixel.
ParImages(w, h) ==
  { [i \in 1..(w * h) |-> IF i = 1 THEN a ELSE p] : p \in ParSamples, a \in ParSamples }

\* What a request handler converts: the file it has just written, rendered
\* to one colour, or a file that cannot be read or parsed.
HandlerInputs ==
  { SvgInput("missing", HandlerW, HandlerH, <<>>),
    SvgInput("malformed", HandlerW, HandlerH, <<>>) }
    \cup { SvgInput("ok", HandlerW, HandlerH, img) : img \in UniformImages(HandlerW, HandlerH) }

\* Six distances, one per palette entry, with every pattern of equal ones.
DistanceVectors == [1..6 -> 0..MaxDist]

\* Bytes of the buffers decoded for debugging: the palette indexes, the first
\* two values past them, the largest byte.
PngBytes == 0..7 \cup {255}

\* The buffers decoded for debugging: one byte everywhere but for one cell.
PngBitmaps ==
  UNION { { [width |-> w, height |-> h,
             data |-> [i \in 1..(w * h) |-> IF i = spot THEN u ELSE v]] :
              v \in PngBytes, u \in PngBytes, spot \in 1..Max(w * h, 1) } :
          w \in 0..MaxPngW, h \in 0..MaxPngH }

\* ------------------------------------------------------------ operations
\* EpdBitmap::new(w, h)
New(w, h) ==
  /\ pc = "idle"
  /\ bmp' = EpdBitmap_new(w, h)
  /\ live' = TRUE
  /\ bytes' = <<>>
  /\ last' = [op |-> "new", res |-> "ok"]
  /\ scenario' = IF w = 2 /\ h = 1 THEN 1 ELSE 0
  /\ stdout' = <<>> /\ io' = {}
  /\ UNCHANGED <<nset, panic, pc, runs, quant, par, png, req>>
  /\ UNCHANGED loopVars

\* bmp.set_pixel(px, py, color)
SetPixel(px, py, color) ==
  /\ pc = "idle" /\ live /\ nset < MaxSets
  /\ LET r == set_pixel(bmp, px, py, color)
     IN  /\ bmp' = r.bmp
         /\ panic' = (panic \/ r.panic)
  /\ nset' = nset + 1
  /\ bytes' = <<>>
  /\ last' = [op |-> "set_pixel",
              res |-> IF px < bmp.width /\ py < bmp.height
                      THEN "inside" ELSE "outside"]
  /\ scenario' = IF scenario = 1 /\ px = 0 /\ py = 0 /\ color = White THEN 2
                 ELSE IF scenario = 2 /\ px = 1 /\ py = 0 /\ color = Black THEN 3
                 ELSE 0
  /\ stdout' = <<>> /\ io' = {}
  /\ UNCHANGED <<live, pc, runs, quant, par, png, req>>
  /\ UNCHANGED loopVars

\* generate_test_bitmap(w, h)
GenerateTestBitmap(w, h) ==
  /\ pc = "idle"
  /\ LET r == generate_test_bitmap(w, h)
     IN  /\ bmp' = r.bmp
         /\ panic' = (panic \/ r.panic)
  /\ live' = TRUE
  /\ bytes' = <<>>
  /\ last' = [op |-> "generate_test_bitmap", res |-> "ok"]
  /\ scenario' = 0
  /\ stdout' = <<>> /\ io' = {}
  /\ UNCHANGED <<nset, pc, runs, quant, par, png, req>>
  /\ UNCHANGED loopVars

\* a to_bytes that moves the pixel data out of the bitmap
ToBytesDraining ==
  /\ pc = "idle" /\ live
  /\ bytes' = to_bytes(bmp)
  /\ bmp' = [bmp EXCEPT !.data = <<>>]
  /\ last' = [op |-> "to_bytes", res |-> "ok"]
  /\ scenario' = IF scenario = 3 THEN 4 ELSE 0
  /\ stdout' = <<>> /\ io' = {}
  /\ UNCHANGED <<live, nset, panic, pc, runs, quant, par, png, req>>
  /\ UNCHANGED loopVars

\* bmp.to_bytes()
ToBytes ==
  /\ pc = "idle" /\ live
  /\ bytes' = to_bytes(bmp)
  /\ last' = [op |-> "to_bytes", res |-> "ok"]
  /\ scenario' = IF scenario = 3 THEN 4 ELSE 0
  /\ stdout' = <<>> /\ io' = {}
  /\ UNCHANGED <<bmp, live, nset, panic, pc, runs, quant, par, png, req>>
  /\ UNCHANGED loopVars

\* a conversion that answers a file it cannot read or parse, or a pixmap it
\* cannot create, with Ok and an untouched bitmap
RenderCallLenient(inputs) ==
  /\ pc = "idle"
  /\ \E in \in inputs :
       IF in.file # "ok" \/ in.width = 0 \/ in.height = 0
       THEN /\ last' = [op |-> "render_svg_to_bitmap", res |-> "ok"]
            /\ io' = {"read svg"}
            /\ stdout' = <<>>
            /\ bmp' = EpdBitmap_new(in.width, in.height) /\ live' = TRUE
            /\ UNCHANGED <<pc, panic, runs>>
            /\ UNCHANGED loopVars
       ELSE /\ last' = [op |-> "render_svg_to_bitmap", res |-> "running"]
            /\ io' = {"read svg", "write debug_render.png"}
            /\ stdout' = <<>>
            /\ width' = in.width
            /\ height' = in.height
            /\ pixmap' = in.pixels
            /\ bitmap' = EpdBitmap_new(in.width, in.height)
            /\ errors' = ZeroErrors(in.width, in.height)
            /\ color_counts' = NoCounts
            /\ hist' = <<>>
            /\ x' = 0 /\ y' = 0
            /\ pc' = "loop"
            /\ bmp' = NoBitmap /\ live' = FALSE
            /\ UNCHANGED <<panic, runs>>
  /\ bytes' = <<>>
  /\ UNCHANGED <<nset, quant, par, png, req>>
  /\ scenario' = 0

\* render_svg_to_bitmap up to the pixel loop: read and parse the file, create
\* the pixmap (None for a zero width or height), render, save the debug PNG,
\* create the bitmap and the error grid.
RenderCall(inputs) ==
  /\ pc = "idle"
  /\ \E in \in inputs :
       LET failure ==
             IF in.file = "missing" THEN "Failed to read SVG file"
             ELSE IF in.file = "malformed" THEN "Failed to parse SVG"
             ELSE IF in.width = 0 \/ in.height = 0 THEN "Failed to create pixmap"
             ELSE "none"
       IN  IF failure # "none"
           THEN /\ last' = [op |-> "render_svg_to_bitmap", res |-> failure]
                /\ io' = {"read svg"}
                /\ stdout' = <<>>
                /\ UNCHANGED <<pc, panic, runs>>
                /\ UNCHANGED loopVars
           ELSE /\ last' = [op |-> "render_svg_to_bitmap", res |-> "running"]
                /\ io' = {"read svg", "write debug_render.png"}
                /\ stdout' = <<>>
                /\ width' = in.width
                /\ height' = in.height
                /\ pixmap' = in.pixels
                /\ bitmap' = EpdBitmap_new(in.width, in.height)
                /\ errors' = ZeroErrors(in.width, in.height)
                /\ color_counts' = NoCounts
                /\ hist' = <<>>
                /\ x' = 0 /\ y' = 0
                /\ pc' = "loop"
                /\ UNCHANGED <<panic, runs>>
  \* the caller holds no bitmap while it waits for the Result
  /\ bmp' = NoBitmap /\ live' = FALSE /\ bytes' = <<>>
  /\ UNCHANGED <<nset, quant, par, png, req>>
  /\ scenario' = 0

\* rgb_to_epd_color(r, g, b), called on its own.  The function is pure, so
\* one call per behaviour shows all there is to see.
Quantize(r, g, b) ==
  /\ pc = "idle" /\ quant = NoCall
  /\ quant' = [rgb |-> <<r, g, b>>,
                dist |-> Distances(LabOfRgb(boost_saturation(r, g, b))),
                color |-> rgb_to_epd_color(r, g, b)]
  /\ UNCHANGED <<last, panic, pc, stdout, io, runs, scenario, par, png, req>>
  /\ UNCHANGED apiVars
  /\ UNCHANGED loopVars

\* The selection that ends rgb_to_epd_color, on six distances given as they
\* are: the colour paired with the distance min_by returns.
SelectNearest(dist) ==
  /\ pc = "idle" /\ quant = NoCall
  /\ quant' = [rgb |-> <<>>, dist |-> dist, color |-> Nearest(dist) - 1]
  /\ UNCHANGED <<last, panic, pc, stdout, io, runs, scenario, par, png, req>>
  /\ UNCHANGED apiVars
  /\ UNCHANGED loopVars

\* One iteration of the pixel loop.
RenderPixel ==
  /\ pc = "loop"
  /\ IF ~(x < width /\ y < height)
     THEN \* pixmap.pixel(x, y) is None: Err("Failed to get pixel")
          /\ last' = [op |-> "render_svg_to_bitmap", res |-> "Failed to get pixel"]
          /\ pc' = "idle"
          /\ width' = 0 /\ height' = 0 /\ pixmap' = <<>>
          /\ bitmap' = NoBitmap /\ errors' = <<>> /\ x' = 0 /\ y' = 0
          /\ color_counts' = NoCounts /\ hist' = <<>>
          /\ UNCHANGED panic
     ELSE LET s == DitherStep(pixmap[y * width + x + 1], errors, x, y, width, height)
              w == set_pixel(bitmap, x, y, s.color)
              pos == NextPos(x, y, width, height)
          IN  /\ errors' = s.errors
              /\ color_counts' = [color_counts EXCEPT ![s.color] = @ + 1]
              /\ bitmap' = w.bmp
              /\ hist' = Append(hist, [x |-> x, y |-> y, err |-> s.err,
                                       rgb |-> s.rgb, color |-> s.color,
                                       quant_err |-> s.quant_err])
              /\ panic' = (panic \/ s.panic \/ w.panic)
              /\ x' = pos[1] /\ y' = pos[2]
              /\ pc' = IF s.panic \/ w.panic THEN "panicked"
                       ELSE IF pos[2] >= height THEN "done" ELSE "loop"
              /\ UNCHANGED <<width, height, pixmap, last>>
  /\ UNCHANGED <<stdout, io, runs, quant, scenario, par, png, req>>
  /\ UNCHANGED apiVars

\* The orders in which a HashMap may yield the keys in S.
Orders(S) ==
  { s \in [1..Cardinality(S) -> S] : \A i, j \in DOMAIN s : i # j => s[i] # s[j] }

\* After the loop: print the statistics in the map's iteration order, return
\* Ok(bitmap).  `record` says whether the finished conversion is logged.
RenderFinish(record) ==
  /\ pc = "done"
  /\ \E order \in Orders({c \in EpdColor : color_counts[c] > 0}) :
       /\ stdout' = order
       /\ runs' = IF record
                  THEN Append(runs, [width |-> width, height |-> height,
                                     pixmap |-> pixmap, data |-> bitmap.data,
                                     errors |-> errors])
                  ELSE runs
  /\ bmp' = bitmap
  /\ live' = TRUE
  /\ bytes' = <<>>
  /\ last' = [op |-> "render_svg_to_bitmap", res |-> "ok"]
  /\ pc' = "idle"
  /\ width' = 0 /\ height' = 0 /\ pixmap' = <<>>
  /\ bitmap' = NoBitmap /\ errors' = <<>> /\ x' = 0 /\ y' = 0
  /\ color_counts' = NoCounts /\ hist' = <<>>
  /\ UNCHANGED <<nset, panic, io, quant, scenario, par, png, req>>

\* a lookup that finds one error grid for all threads: the first thread's,
\* once it exists
SharedErrors(th, t) ==
  IF Len(th[1].errors) = Len(th[t].errors) THEN th[1].errors ELSE th[t].errors

\* `errors` in the body of render_svg_to_bitmap run by thread t: the local of
\* that call
OwnErrors(th, t) == th[t].errors

\* Thread t calls render_svg_to_bitmap on an image: the part up to the pixel
\* loop.  The debug PNG has one name for all calls.
ParCall(t, pixels, w, h) ==
  /\ pc = "idle" /\ par.th[t].pc = "idle"
  /\ par' = [th |-> [par.th EXCEPT ![t] =
                       [pc |-> "loop", pixmap |-> pixels,
                        bitmap |-> EpdBitmap_new(w, h),
                        errors |-> ZeroErrors(w, h),
                        x |-> 0, y |-> 0, overlap |-> FALSE]],
             debug_png |-> pixels]
  /\ UNCHANGED <<last, panic, pc, stdout, io, runs, quant, scenario, png, req>>
  /\ UNCHANGED apiVars
  /\ UNCHANGED loopVars

\* Thread t runs one iteration of its pixel loop.
ParPixel(t, w, h) ==
  /\ par.th[t].pc = "loop"
  /\ LET c == par.th[t]
     IN  IF ~(c.x < w /\ c.y < h)
         THEN /\ par' = [par EXCEPT !.th[t].pc = "failed"]
              /\ UNCHANGED panic
         ELSE LET s == DitherStep(c.pixmap[c.y * w + c.x + 1], OwnErrors(par.th, t),
                                  c.x, c.y, w, h)
                  b == set_pixel(c.bitmap, c.x, c.y, s.color)
                  pos == NextPos(c.x, c.y, w, h)
              IN  /\ par' = [par EXCEPT !.th[t] =
                               [pc |-> IF pos[2] >= h THEN "done" ELSE "loop",
                                pixmap |-> c.pixmap, bitmap |-> b.bmp,
                                errors |-> s.errors, x |-> pos[1], y |-> pos[2],
                                overlap |-> c.overlap
                                  \/ \E o \in Threads \ {t} :
                                       par.th[o].pc = "loop" /\ par.th[o].x + par.th[o].y > 0]]
                  /\ panic' = (panic \/ s.panic \/ b.panic)
  /\ UNCHANGED <<last, pc, stdout, io, runs, quant, scenario, png, req>>
  /\ UNCHANGED apiVars
  /\ UNCHANGED loopVars

\* Thread t leaves the loop and returns Ok(bitmap).
ParReturn(t) ==
  /\ par.th[t].pc = "done"
  /\ par' = [par EXCEPT !.th[t].pc = "returned"]
  /\ UNCHANGED <<last, panic, pc, stdout, io, runs, quant, scenario, png, req>>
  /\ UNCHANGED apiVars
  /\ UNCHANGED loopVars

\* The SVG texts two requests to one endpoint may generate: they differ with
\* the query (battery_pct, show_alerts) and with what was fetched.
SvgContents == {"svg a", "svg b"}

\* What resvg renders an SVG text to: an image of one colour, another for
\* the other text.
Rendered(svg) ==
  [i \in 1..(ParW * ParH) |-> IF svg = "svg a" THEN <<0, 0, 0>> ELSE <<200, 120, 40>>]

\* Handler t is entered: the fetch returns Ok and the SVG text is generated.
ReqGenerate(t, svg) ==
  /\ pc = "idle" /\ req.h[t].pc = "idle"
  /\ req' = [req EXCEPT !.h[t].pc = "generated", !.h[t].svg_content = svg]
  /\ UNCHANGED <<last, panic, pc, stdout, io, runs, quant, scenario, par, png>>
  /\ UNCHANGED apiVars
  /\ UNCHANGED loopVars

\* std::fs::write(temp_svg_path, &svg_content), first half: File::create
\* opens the one path all requests to the endpoint use and truncates it.
ReqCreate(t) ==
  /\ req.h[t].pc = "generated"
  /\ req' = [req EXCEPT !.h[t].pc = "created", !.temp_svg = "empty"]
  /\ UNCHANGED <<last, panic, pc, stdout, io, runs, quant, scenario, par, png>>
  /\ UNCHANGED apiVars
  /\ UNCHANGED loopVars

\* std::fs::write, second half: write_all of the text.
ReqWrite(t) ==
  /\ req.h[t].pc = "created"
  /\ req' = [req EXCEPT !.h[t].pc = "written", !.temp_svg = req.h[t].svg_content]
  /\ UNCHANGED <<last, panic, pc, stdout, io, runs, quant, scenario, par, png>>
  /\ UNCHANGED apiVars
  /\ UNCHANGED loopVars

\* render_svg_to_bitmap(Path::new(temp_svg_path), ..): fs::read of the path.
ReqRead(t) ==
  /\ req.h[t].pc = "written"
  /\ req' = [req EXCEPT !.h[t].pc = "read", !.h[t].svg_data = req.temp_svg]
  /\ UNCHANGED <<last, panic, pc, stdout, io, runs, quant, scenario, par, png>>
  /\ UNCHANGED apiVars
  /\ UNCHANGED loopVars

\* The rest of render_svg_to_bitmap and the handler's match on its result:
\* an empty file does not parse and the handler takes the test pattern;
\* otherwise the text read is rendered, saved as debug_render.png (one name
\* for all calls) and converted.
ReqConvert(t) ==
  /\ req.h[t].pc = "read"
  /\ req' = IF req.h[t].svg_data = "empty"
            THEN [req EXCEPT !.h[t].pc = "converted",
                             !.h[t].bitmap = generate_test_bitmap(ParW, ParH).bmp]
            ELSE [req EXCEPT !.h[t].pc = "converted",
                             !.h[t].bitmap = Convert(Rendered(req.h[t].svg_data), ParW, ParH),
                             !.debug_png = req.h[t].svg_data]
  /\ UNCHANGED <<last, panic, pc, stdout, io, runs, quant, scenario, par, png>>
  /\ UNCHANGED apiVars
  /\ UNCHANGED loopVars

\* bitmap.to_bytes() and the response.
ReqRespond(t) ==
  /\ req.h[t].pc = "converted"
  /\ req' = [req EXCEPT !.h[t].pc = "responded"]
  /\ UNCHANGED <<last, panic, pc, stdout, io, runs, quant, scenario, par, png>>
  /\ UNCHANGED apiVars
  /\ UNCHANGED loopVars

\* bitmap_to_png(&b).  The function is pure: one call per behaviour.
BitmapToPng(b) ==
  /\ pc = "idle" /\ png = NoPng
  /\ png' = [called |-> TRUE, bitmap |-> b,
             ok |-> bitmap_to_png(b).ok, pixels |-> bitmap_to_png(b).pixels]
  /\ UNCHANGED <<last, panic, pc, stdout, io, runs, quant, scenario, par, req>>
  /\ UNCHANGED apiVars
  /\ UNCHANGED loopVars

\* get_weather_bitmap and the handlers like it: the data was fetched and the
\* SVG written, and render_svg_to_bitmap is called on the file.
HandlerRender ==
  /\ ~live /\ last.op \in {"none", "respond"}
  /\ RenderCall(HandlerInputs)

\* The handler's Err arms: the fetch failed, the SVG could not be written or
\* the conversion returned Err; the bitmap is the test pattern.
HandlerFallback ==
  /\ ~live
  /\ \/ last.op \in {"none", "respond"}
     \/ last.op = "render_svg_to_bitmap" /\ last.res \notin {"ok", "running"}
  /\ GenerateTestBitmap(HandlerW, HandlerH)

\* `Query(query): Query<QueryArgs>` cannot be built from the request's query
\* string (battery_pct is not a u8, show_alerts not a bool): the extractor
\* answers 400 Bad Request and the handler's body does not run.
HandlerReject ==
  /\ pc = "idle" /\ ~live /\ last.op \in {"none", "respond"}
  /\ last' = [op |-> "respond", res |-> "bad request"]
  /\ bmp' = NoBitmap /\ bytes' = <<>>
  /\ scenario' = 0
  /\ stdout' = <<>> /\ io' = {}
  /\ UNCHANGED <<live, nset, panic, pc, runs, quant, par, png, req>>
  /\ UNCHANGED loopVars

\* The fetch returned Ok and the SVG generator panics on what was fetched
\* (generate_weather_svg: `weather.daily[0]` of an empty list, the unwrap of
\* `FixedOffset::east_opt(weather.timezone_offset)`): the handler is unwound
\* before it has a bitmap, and the request gets no body.
HandlerPanic ==
  /\ pc = "idle" /\ ~live /\ last.op \in {"none", "respond"}
  /\ last' = [op |-> "respond", res |-> "aborted"]
  /\ bmp' = NoBitmap /\ bytes' = <<>>
  /\ scenario' = 0
  /\ stdout' = <<>> /\ io' = {}
  /\ UNCHANGED <<live, nset, panic, pc, runs, quant, par, png, req>>
  /\ UNCHANGED loopVars

\* `let bytes = bitmap.to_bytes();`
HandlerToBytes ==
  /\ \/ last.op = "render_svg_to_bitmap" /\ last.res = "ok"
     \/ last.op = "generate_test_bitmap"
  /\ ToBytes

\* The handler returns the bytes as the response; the bitmap is dropped.
HandlerRespond ==
  /\ pc = "idle" /\ live /\ last.op = "to_bytes"
  /\ bmp' = NoBitmap /\ live' = FALSE /\ bytes' = <<>>
  /\ last' = [op |-> "respond", res |-> "ok"]
  /\ scenario' = 0
  /\ stdout' = <<>> /\ io' = {}
  /\ UNCHANGED <<nset, panic, pc, runs, quant, par, png, req>>
  /\ UNCHANGED loopVars

\* ------------------------------------------------------------ specifications
\* The object-level operations, in any order.
Next ==
  \/ \E d \in NewDims : New(d[1], d[2])
  \/ \E px \in XCoords, py \in YCoords, color \in EpdColor : SetPixel(px, py, color)
  \/ \E d \in TestDims : GenerateTestBitmap(d[1], d[2])
  \/ ToBytes
  \/ RenderCall(ApiInputs)
  \/ RenderPixel
  \/ RenderFinish(FALSE)

Spec == Init /\ [][Next]_vars

\* Conversions of small images, each converted a second time.
NextRender ==
  \/ RenderCall(ImageInputs)
  \/ RenderPixel
  \/ RenderFinish(TRUE)
  \/ ToBytes

SpecRender == Init /\ [][NextRender]_vars

\* One conversion after another of an image of any small size.
NextLoop ==
  \/ RenderCall(LoopInputs)
  \/ RenderPixel
  \/ RenderFinish(FALSE)

\* What `for y in 0..height { for x in 0..width {` does to the loop variables
\* when the thread that runs the loop takes its next step.
LoopAdvance ==
  /\ pc = "loop"
  /\ x' = NextPos(x, y, width, height)[1]
  /\ y' = NextPos(x, y, width, height)[2]
  /\ pc' = IF NextPos(x, y, width, height)[2] >= height THEN "done" ELSE "loop"

\* The thread inside the pixel loop is never stopped for good: the loop is
\* plain sequential code, without an await or a lock.
SpecLoop == Init /\ [][NextLoop]_vars /\ WF_<<x, y, pc>>(LoopAdvance)

\* Test patterns of many sizes, each serialized or replaced by the next.
NextPattern ==
  \/ \E d \in PatternDims : GenerateTestBitmap(d[1], d[2])
  \/ ToBytes

SpecPattern == Init /\ [][NextPattern]_vars


\* The quantizer applied to colours of a grid over the RGB cube, and its
\* selection applied to small distances.
NextQuant ==
  \/ \E r \in Channel, g \in Channel, b \in Channel : Quantize(r, g, b)
  \/ \E dist \in DistanceVectors : SelectNearest(dist)

SpecQuant == Init /\ [][NextQuant]_vars

\* One request after another through a bitmap handler.
NextHandler ==
  \/ HandlerRender
  \/ RenderPixel
  \/ RenderFinish(FALSE)
  \/ HandlerFallback
  \/ HandlerToBytes
  \/ HandlerRespond
  \/ HandlerReject
  \/ HandlerPanic

SpecHandler == Init /\ [][NextHandler]_vars

\* Two threads, each converting one image, their steps in any order.
NextPar ==
  \/ \E t \in Threads : \E img \in ParImages(ParW, ParH) : ParCall(t, img, ParW, ParH)
  \/ \E t \in Threads : ParPixel(t, ParW, ParH)
  \/ \E t \in Threads : ParReturn(t)

SpecPar == Init /\ [][NextPar]_vars

\* Two requests to one bitmap endpoint, served by two worker threads of the
\* runtime, their steps in any order.
NextRequests ==
  \/ \E t \in Threads : \E svg \in SvgContents : ReqGenerate(t, svg)
  \/ \E t \in Threads : ReqCreate(t)
  \/ \E t \in Threads : ReqWrite(t)
  \/ \E t \in Threads : ReqRead(t)
  \/ \E t \in Threads : ReqConvert(t)
  \/ \E t \in Threads : ReqRespond(t)

SpecRequests == Init /\ [][NextRequests]_vars

\* Debug decoding of small buffers with any bytes.
NextPng ==
  \E b \in PngBitmaps : BitmapToPng(b)

SpecPng == Init /\ [][NextPng]_vars

\* ------------------------------------------------------------ properties
\* of the object-level operations (specification Spec)

\* C1: to_bytes returns exactly 8 + w*h bytes: 'E','P','B','M', then w and h
\* as big-endian u16, then byte 8+i equal to cell i of the pixel buffer, for
\* every i in 0..w*h.
ToBytesLayout ==
  last.op = "to_bytes" =>
    /\ Len(bytes) = 8 + bmp.width * bmp.height
    /\ bytes[1] = 69 /\ bytes[2] = 80 /\ bytes[3] = 66 /\ bytes[4] = 77
    /\ bytes[5] \in 0..255 /\ bytes[6] \in 0..255
    /\ bytes[5] * 256 + bytes[6] = bmp.width
    /\ bytes[7] \in 0..255 /\ bytes[8] \in 0..255
    /\ bytes[7] * 256 + bytes[8] = bmp.height
    /\ \A i \in 0..(bmp.width * bmp.height - 1) : bytes[8 + i + 1] = bmp.data[i + 1]

\* to_bytes of a bitmap wider than 255 with a cell that is not White
ToBytesWideSeen ==
  /\ last.op = "to_bytes"
  /\ bmp.width > 255
  /\ \E i \in DOMAIN bmp.data : bmp.data[i] # White

\* C2: after any sequence of new, set_pixel, generate_test_bitmap and
\* render_svg_to_bitmap, every byte of the pixel buffer is in 0..5 and the
\* buffer length equals width * height; for the caller's bitmap and for the
\* one a conversion is filling.
PixelBufferValid ==
  /\ Len(bmp.data) = bmp.width * bmp.height
  /\ \A i \in DOMAIN bmp.data : bmp.data[i] \in 0..5
  /\ Len(bitmap.data) = bitmap.width * bitmap.height
  /\ \A i \in DOMAIN bitmap.data : bitmap.data[i] \in 0..5

\* a full-size bitmap after a set_pixel that stored the last colour
PixelBufferWritten ==
  /\ last.op = "set_pixel" /\ last.res = "inside"
  /\ nset = MaxSets
  /\ Len(bmp.data) = MaxW * MaxH
  /\ \E i \in DOMAIN bmp.data : bmp.data[i] = Yellow

\* C3: set_pixel(x, y, c) with x >= width or y >= height does not panic and
\* leaves width, height and every byte of the pixel buffer unchanged.
SetPixelOutsideNoOp ==
  [][(nset' = nset + 1 /\ last'.res = "outside") => (bmp' = bmp /\ ~panic')]_vars

\* a set_pixel outside a bitmap that has cells
SetPixelOutsideSeen ==
  /\ last.op = "set_pixel" /\ last.res = "outside"
  /\ Len(bmp.data) > 1

\* C4: EpdBitmap::new(w, h) yields a buffer of exactly w*h bytes, every one
\* of them the White index (1).
NewAllWhite ==
  [][\A d \in NewDims :
       New(d[1], d[2]) =>
         /\ Len(bmp'.data) = d[1] * d[2]
         /\ \A i \in DOMAIN bmp'.data : bmp'.data[i] = 1]_vars

\* a new bitmap of the largest small size
NewSeen == last.op = "new" /\ Len(bmp.data) = MaxW * MaxH

\* C5: a width or height of zero is rejected: neither new nor
\* generate_test_bitmap nor render_svg_to_bitmap returns a bitmap with an
\* empty pixel buffer, and to_bytes never returns a header-only serialization.
ZeroDimensionRejected ==
  /\ (live /\ last.op \in {"new", "generate_test_bitmap", "render_svg_to_bitmap"})
       => Len(bmp.data) > 0
  /\ last.op = "to_bytes" => Len(bytes) > 8

\* C22: set_pixel(x, y, c) with x < width and y < height stores c's index in
\* the cell at index y*width + x, which is a cell of the buffer, and leaves
\* every other cell, the width and the height as they were.
SetPixelExact ==
  [][\A px \in XCoords, py \in YCoords, color \in EpdColor :
       (nset' = nset + 1 /\ px < bmp.width /\ py < bmp.height /\ SetPixel(px, py, color)) =>
         /\ py * bmp.width + px < Len(bmp.data)
         /\ panic' = panic
         /\ bmp'.width = bmp.width /\ bmp'.height = bmp.height
         /\ Len(bmp'.data) = Len(bmp.data)
         /\ \A i \in DOMAIN bmp.data :
              bmp'.data[i] = IF i = py * bmp.width + px + 1 THEN color ELSE bmp.data[i]]_vars

\* a first set_pixel that stored Blue at (1, 1) of the largest small bitmap
SetPixelMiddleSeen ==
  /\ last.op = "set_pixel" /\ last.res = "inside"
  /\ nset = 1 /\ bmp.width = MaxW /\ bmp.height = MaxH
  /\ bmp.data[MaxW + 2] = Blue

\* C23: render_svg_to_bitmap answers a file it cannot read, an SVG it cannot
\* parse, a pixmap it cannot create and a pixel it cannot fetch with Err and
\* no bitmap; Ok comes only at the end of the pixel loop, with the bitmap the
\* loop has filled, every pixel of it processed.
FailuresReported ==
  [][/\ (pc = "idle" /\ last'.op = "render_svg_to_bitmap") =>
          \A in \in ApiInputs :
            RenderCall({in}) =>
              /\ ~live' /\ bmp' = NoBitmap
              /\ in.file = "missing" => (last'.res = "Failed to read SVG file" /\ pc' = "idle")
              /\ in.file = "malformed" => (last'.res = "Failed to parse SVG" /\ pc' = "idle")
              /\ (in.file = "ok" /\ (in.width = 0 \/ in.height = 0)) =>
                   (last'.res = "Failed to create pixmap" /\ pc' = "idle")
              /\ (in.file = "ok" /\ in.width > 0 /\ in.height > 0) =>
                   (last'.res = "running" /\ pc' = "loop")
     /\ (pc = "loop" /\ ~(x < width /\ y < height)) =>
          (last'.res = "Failed to get pixel" /\ ~live' /\ pc' = "idle")
     /\ (last'.op = "render_svg_to_bitmap" /\ last'.res # "ok") =>
          (~live' /\ bmp' = NoBitmap)
     /\ (last'.op = "render_svg_to_bitmap" /\ last'.res = "ok" /\ last' # last) =>
          /\ pc = "done" /\ ~panic
          /\ Len(hist) = width * height
          /\ live' /\ bmp' = bitmap
          /\ bmp'.width = width /\ bmp'.height = height
          /\ Len(bmp'.data) = width * height]_vars

\* a conversion that could not create its pixmap and returned Err
FailureSeen ==
  /\ last.op = "render_svg_to_bitmap" /\ last.res = "Failed to create pixmap"
  /\ ~live /\ pc = "idle"

\* C12: decoding the 8-byte header of to_bytes output gives back the bitmap's
\* width and height, and the encoded length is 8 + width * height computed
\* from the decoded values.
HeaderRoundTrip ==
  last.op = "to_bytes" =>
    /\ Len(bytes) >= 8
    /\ decode_header(bytes).magic = <<69, 80, 66, 77>>
    /\ decode_header(bytes).width = bmp.width
    /\ decode_header(bytes).height = bmp.height
    /\ Len(bytes) = 8 + decode_header(bytes).width * decode_header(bytes).height

\* to_bytes of a bitmap higher than 255 and higher than wide
HeaderTallSeen ==
  /\ last.op = "to_bytes"
  /\ bmp.height > 255 /\ bmp.width # bmp.height
  /\ decode_header(bytes).height = bmp.height

\* C13: new(2,1); set_pixel(0,0,White); set_pixel(1,0,Black); to_bytes yields
\* exactly the 10 bytes 45 50 42 4D 00 02 00 01 01 00 (hexadecimal).
ScenarioBytes ==
  scenario = 4 => bytes = <<69, 80, 66, 77, 0, 2, 0, 1, 1, 0>>

\* the four calls of the scenario were made in a row
ScenarioRun ==
  /\ scenario = 4
  /\ last.op = "to_bytes" /\ nset = 2
  /\ Len(bytes) = 10

\* C15: between receiving its input and returning the bitmap, the conversion
\* call reads no file and writes no file.
ConversionWithoutFiles ==
  (pc # "idle" \/ last.op = "render_svg_to_bitmap") => io = {}

\* ------------------------------------------------------------ properties
\* of the conversion (specification SpecRender)

\* C6: the conversion visits the pixels in raster order, the error read for
\* pixel (x, y) is the sum of what every earlier pixel whose kernel reaches
\* (x, y) sent there, and the colours chosen up to a pixel do not depend on
\* the input pixels after it: they are those of the image that continues with
\* the first pixel's colour.
RasterOrderDiffusion ==
  LET Sent(i, k, ch) ==
        LET sx == hist[i].x - ATKINSON_KERNEL[k][1]
            sy == hist[i].y - ATKINSON_KERNEL[k][2]
        IN  IF sx >= 0 /\ sx < width /\ sy >= 0 /\ sy * width + sx + 1 < i
            THEN hist[sy * width + sx + 1].quant_err[ch] * ATKINSON_KERNEL[k][3]
            ELSE 0
      n == width * height
      differ == {i \in 1..n : pixmap[i] # pixmap[1]}
      first == IF differ = {} THEN n + 1
               ELSE CHOOSE i \in differ : \A j \in differ : i <= j
  IN  /\ \A i \in DOMAIN hist :
           hist[i].x = (i - 1) % width /\ hist[i].y = (i - 1) \div width
      /\ pc = "loop" => Len(hist) = y * width + x
      /\ pc = "done" => Len(hist) = n
      /\ \A i \in DOMAIN hist : \A ch \in 1..3 :
           hist[i].err[ch] = Sent(i, 1, ch) + Sent(i, 2, ch) + Sent(i, 3, ch)
                             + Sent(i, 4, ch) + Sent(i, 5, ch) + Sent(i, 6, ch)
      /\ pc = "done" =>
           \A i \in 1..(first - 1) :
             bitmap.data[i] = Convert([j \in 1..n |-> pixmap[1]], width, height).data[i]

\* a finished conversion of the largest image in which a pixel after the
\* first differs from it and was read with an accumulated error
RasterOrderSeen ==
  /\ pc = "done"
  /\ width = MaxImgW /\ height = MaxImgH
  /\ \E i \in 2..Len(hist) : pixmap[i] # pixmap[1] /\ hist[i].err # <<0, 0, 0>>

\* C7: the diffusion step of pixel (x, y) adds error only to those of the six
\* targets (x+1,y), (x+2,y), (x-1,y+1), (x,y+1), (x+1,y+1), (x,y+2) that are
\* cells of the grid; it does not panic, the grid keeps its shape, and every
\* other cell keeps its value.
DiffusionInBounds ==
  [][(pc = "loop" /\ Len(hist') = Len(hist) + 1) =>
       LET q == hist'[Len(hist')].quant_err
           targets == { <<x + 1, y>>, <<x + 2, y>>, <<x - 1, y + 1>>,
                        <<x, y + 1>>, <<x + 1, y + 1>>, <<x, y + 2>> }
       IN  /\ ~panic'
           /\ Len(errors') = height
           /\ \A cy \in 0..(height - 1) :
                /\ Len(errors'[cy + 1]) = width
                /\ \A cx \in 0..(width - 1) :
                     errors'[cy + 1][cx + 1] =
                       IF <<cx, cy>> \in targets
                       THEN << errors[cy + 1][cx + 1][1] + q[1],
                               errors[cy + 1][cx + 1][2] + q[2],
                               errors[cy + 1][cx + 1][3] + q[3] >>
                       ELSE errors[cy + 1][cx + 1]]_vars

\* a finished conversion of the largest image whose bottom-right pixel had a
\* quantization error to diffuse
BottomRightDiffused ==
  /\ pc = "done" /\ ~panic
  /\ width = MaxImgW /\ height = MaxImgH
  /\ hist[Len(hist)].x = width - 1 /\ hist[Len(hist)].y = height - 1
  /\ hist[Len(hist)].quant_err # <<0, 0, 0>>

\* C8: the kernel is exactly the six offsets (+1,0), (+2,0), (-1,+1), (0,+1),
\* (+1,+1), (0,+2), each with weight one eighth, six eighths in total; a pixel
\* whose six targets are all cells of the grid adds six eighths of its
\* quantization error to them in total and nothing to any other cell.
KernelSixEighths ==
  [][/\ Len(ATKINSON_KERNEL) = 6
     /\ { <<ATKINSON_KERNEL[k][1], ATKINSON_KERNEL[k][2]>> : k \in 1..6 }
          = { <<1, 0>>, <<2, 0>>, <<-1, 1>>, <<0, 1>>, <<1, 1>>, <<0, 2>> }
     /\ \A k \in 1..6 : ATKINSON_KERNEL[k][3] = 1
     /\ ATKINSON_KERNEL[1][3] + ATKINSON_KERNEL[2][3] + ATKINSON_KERNEL[3][3]
          + ATKINSON_KERNEL[4][3] + ATKINSON_KERNEL[5][3] + ATKINSON_KERNEL[6][3] = 6
     /\ (/\ pc = "loop" /\ Len(hist') = Len(hist) + 1
         /\ x >= 1 /\ x + 2 < width /\ y + 2 < height) =>
          LET q == hist'[Len(hist')].quant_err
              Gain(cx, cy, ch) == errors'[cy + 1][cx + 1][ch] - errors[cy + 1][cx + 1][ch]
              targets == { <<x + 1, y>>, <<x + 2, y>>, <<x - 1, y + 1>>,
                           <<x, y + 1>>, <<x + 1, y + 1>>, <<x, y + 2>> }
          IN  /\ \A ch \in 1..3 :
                   Gain(x + 1, y, ch) + Gain(x + 2, y, ch) + Gain(x - 1, y + 1, ch)
                     + Gain(x, y + 1, ch) + Gain(x + 1, y + 1, ch) + Gain(x, y + 2, ch)
                     = 6 * q[ch]
              /\ \A cy \in 0..(height - 1), cx \in 0..(width - 1) :
                   <<cx, cy>> \notin targets => errors'[cy + 1][cx + 1] = errors[cy + 1][cx + 1]]_vars

\* a processed pixel with all six targets inside the grid and an error to send
SixTargetsSeen ==
  /\ pc \in {"loop", "done"}
  /\ \E i \in DOMAIN hist :
       /\ hist[i].x >= 1 /\ hist[i].x + 2 < width /\ hist[i].y + 2 < height
       /\ hist[i].quant_err[1] # 0

\* C9: two conversions of the same pixel grid and dimensions give the same
\* pixel buffer and the same to_bytes output, whatever the earlier conversion
\* left behind and in whatever order the statistics map was iterated.
ConversionDeterministic ==
  \A i, j \in DOMAIN runs :
    (/\ runs[i].width = runs[j].width /\ runs[i].height = runs[j].height
     /\ runs[i].pixmap = runs[j].pixmap) =>
      /\ runs[i].data = runs[j].data
      /\ to_bytes([width |-> runs[i].width, height |-> runs[i].height, data |-> runs[i].data])
           = to_bytes([width |-> runs[j].width, height |-> runs[j].height, data |-> runs[j].data])

\* the same image converted twice, the first conversion having left errors in
\* its grid, the statistics of the second printed out of index order
ConvertedTwice ==
  /\ Len(runs) = 2
  /\ runs[1].pixmap = runs[2].pixmap
  /\ \E r \in DOMAIN runs[1].errors : \E c \in DOMAIN runs[1].errors[r] :
       runs[1].errors[r][c] # <<0, 0, 0>>
  /\ Len(stdout) >= 2 /\ stdout[1] > stdout[2]

\* C10: a pixel whose RGB value is one of the six palette values is assigned
\* that colour's index; an image filled with one palette colour converts to
\* that index everywhere with every accumulated error zero.
ExactMatchSnap ==
  pc = "done" =>
    /\ \A i \in DOMAIN hist : \A c \in EpdColor :
         pixmap[i] = PALETTE[c + 1] => bitmap.data[i] = c
    /\ \A c \in EpdColor :
         (\A i \in DOMAIN pixmap : pixmap[i] = PALETTE[c + 1]) =>
           /\ \A i \in DOMAIN bitmap.data : bitmap.data[i] = c
           /\ errors = ZeroErrors(width, height)

\* C17: in the step of each pixel the accumulated error is added to the raw
\* RGB and each channel is clamped to [0,255] (and cut to a whole number)
\* before quantization; the colour is the quantizer's for that value, and the
\* error diffused per channel is that value, before any saturation boost,
\* minus the chosen palette colour's channel.
ClampThenQuantize ==
  [][(pc = "loop" /\ Len(hist') = Len(hist) + 1) =>
       LET h == hist'[Len(hist')]
           raw == pixmap[y * width + x + 1]
           acc == errors[y + 1][x + 1]
       IN  /\ h.err = acc
           /\ \A ch \in 1..3 :
                /\ h.rgb[ch] \in 0..255
                /\ 8 * raw[ch] + acc[ch] < 0 => h.rgb[ch] = 0
                /\ 8 * raw[ch] + acc[ch] >= 8 * 255 => h.rgb[ch] = 255
                /\ (8 * raw[ch] + acc[ch] >= 0 /\ 8 * raw[ch] + acc[ch] < 8 * 255) =>
                     (8 * h.rgb[ch] <= 8 * raw[ch] + acc[ch]
                      /\ 8 * raw[ch] + acc[ch] < 8 * h.rgb[ch] + 8)
                /\ h.quant_err[ch] = h.rgb[ch] - PALETTE[h.color + 1][ch]
                /\ x + 1 < width =>
                     errors'[y + 1][x + 2][ch] - errors[y + 1][x + 2][ch]
                       = h.rgb[ch] - PALETTE[h.color + 1][ch]
           /\ h.color = rgb_to_epd_color(h.rgb[1], h.rgb[2], h.rgb[3])
           /\ bitmap'.data[y * width + x + 1] = h.color]_vars

\* a conversion in which one pixel's sum left [0,255] and was clamped, and
\* another pixel's value is one the saturation boost changes
ClampAndBoostSeen ==
  /\ pc \in {"loop", "done"}
  /\ \E i \in DOMAIN hist : \E ch \in 1..3 :
       /\ (8 * pixmap[i][ch] + hist[i].err[ch] < 0
           \/ 8 * pixmap[i][ch] + hist[i].err[ch] >= 8 * 256)
       /\ hist[i].quant_err # <<0, 0, 0>>
  /\ \E j \in DOMAIN hist :
       boost_saturation(hist[j].rgb[1], hist[j].rgb[2], hist[j].rgb[3]) # hist[j].rgb

\* C24: every pixel step moves on to the next pixel in raster order, never to
\* the same or an earlier one, and changes at most six cells of the error
\* grid; the loop is left exactly when width*height steps are made, and a
\* loop that was entered is left.
LoopBounded ==
  /\ [][pc = "loop" =>
          /\ Len(hist') = Len(hist) + 1
          /\ Len(hist) = y * width + x
          /\ pc' \in {"loop", "done"}
          /\ pc' = "loop" => (y' * width + x' = y * width + x + 1 /\ Len(hist') < width * height)
          /\ pc' = "done" => Len(hist') = width * height
          /\ Cardinality({ c \in (1..height) \X (1..width) :
                             errors'[c[1]][c[2]] # errors[c[1]][c[2]] }) <= 6]_vars
  /\ (pc = "loop") ~> (pc = "done")

\* the loop over the largest image was left after a step for every pixel,
\* the first of which had an error to spread
LoopLeftSeen ==
  /\ pc = "done"
  /\ width = MaxImgW /\ height = MaxImgH
  /\ Len(hist) = MaxImgW * MaxImgH
  /\ hist[1].quant_err # <<0, 0, 0>>
  /\ x = 0 /\ y = MaxImgH

\* ------------------------------------------------------------ properties
\* of the test pattern (specification SpecPattern)

\* C25: in the bitmap of generate_test_bitmap(w, h), with bar = w / 6, every
\* pixel (x, y) with y < h / 2 and x < 6 * bar has palette index x / bar, and
\* every other pixel is White: the bottom half, the columns from 6 * bar on,
\* and the whole image when w < 6.
TestPatternLayout ==
  last.op = "generate_test_bitmap" =>
    /\ ~panic
    /\ Len(bmp.data) = bmp.width * bmp.height
    /\ \A py \in 0..(bmp.height - 1), px \in 0..(bmp.width - 1) :
         bmp.data[py * bmp.width + px + 1] =
           IF py < bmp.height \div 2 /\ px < 6 * (bmp.width \div 6)
           THEN px \div (bmp.width \div 6)
           ELSE White

\* the largest pattern: bars two pixels wide, a column left over on the
\* right, an odd height
TestPatternSeen ==
  /\ last.op = "generate_test_bitmap"
  /\ bmp.width = MaxPatW /\ bmp.height = MaxPatH
  /\ bmp.data[1] = Black /\ bmp.data[MaxPatW - 1] = Yellow
  /\ bmp.data[MaxPatW] = White

\* ------------------------------------------------------------ properties
\* of the pixel loop (specification SpecLoop)

\* C26: every kernel offset points forward in raster order (a later row, or
\* the same row further right), a pixel step leaves the error cell of every
\* pixel up to and including its own as it was, and so the cell of a
\* processed pixel holds for good the error that pixel was read with.
NoBackwardDiffusion ==
  /\ \A k \in DOMAIN ATKINSON_KERNEL :
       \/ ATKINSON_KERNEL[k][2] > 0
       \/ ATKINSON_KERNEL[k][2] = 0 /\ ATKINSON_KERNEL[k][1] > 0
  /\ pc \in {"loop", "done"} =>
       /\ \A i \in DOMAIN hist :
            errors[hist[i].y + 1][hist[i].x + 1] = hist[i].err
       /\ \A k \in DOMAIN ATKINSON_KERNEL : \A i \in DOMAIN hist :
            LET nx == hist[i].x + ATKINSON_KERNEL[k][1]
                ny == hist[i].y + ATKINSON_KERNEL[k][2]
            IN  InBounds(nx, ny, width, height) => ny * width + nx + 1 > i

\* the largest image converted, every pixel of it having had an error to
\* send on, the second row's first pixel having received one
NoBackwardSeen ==
  /\ pc = "done"
  /\ width = MaxImgW /\ height = MaxImgH
  /\ \A i \in DOMAIN hist : hist[i].quant_err # <<0, 0, 0>>
  /\ hist[MaxImgW + 1].err # <<0, 0, 0>>

\* C27: the quantization error of a pixel is at most 255 per channel; a
\* pixel step changes a channel of a grid cell by at most 255/8; a cell has
\* at most six pixels that send to it; and every channel of every cell is at
\* most 6*255/8 = 191.25 in absolute value.  (The grid is in eighths.)
ErrorBounded ==
  [][pc = "loop" =>
       /\ \A ch \in 1..3 :
            /\ hist'[Len(hist')].rgb[ch] \in 0..255
            /\ Abs(hist'[Len(hist')].quant_err[ch]) <= 255
       /\ \A cy \in 1..height, cx \in 1..width :
            /\ \A ch \in 1..3 :
                 /\ Abs(errors'[cy][cx][ch] - errors[cy][cx][ch]) <= 255
                 /\ Abs(errors'[cy][cx][ch]) <= 6 * 255
            /\ Cardinality({ i \in DOMAIN hist' :
                             \E k \in DOMAIN ATKINSON_KERNEL :
                               /\ hist'[i].x + ATKINSON_KERNEL[k][1] = cx - 1
                               /\ hist'[i].y + ATKINSON_KERNEL[k][2] = cy - 1 }) <= 6]_vars

\* the loop about to read a cell that six pixels have sent to, the cell
\* holding more than one pixel could send
ErrorAccumulatedSeen ==
  /\ pc = "loop"
  /\ width = MaxImgW /\ height = MaxImgH
  /\ x = 2 /\ y = 2
  /\ \E ch \in 1..3 : Abs(errors[3][3][ch]) > 255

\* C28: a pixel step assigns the quantizer's colour to the cell of its own
\* pixel, the next in raster order, and to no other, the cells after it
\* still holding the initial fill; the bitmap returned as Ok has the
\* requested width and height and in every cell the colour the quantizer
\* chose for that pixel, each pixel having had one step.
EveryPixelAssigned ==
  [][/\ pc = "loop" =>
          /\ Len(hist') = y * width + x + 1
          /\ hist'[Len(hist')].x = x /\ hist'[Len(hist')].y = y
          /\ hist'[Len(hist')].color =
               rgb_to_epd_color(hist'[Len(hist')].rgb[1], hist'[Len(hist')].rgb[2],
                                hist'[Len(hist')].rgb[3])
          /\ bitmap'.width = width /\ bitmap'.height = height
          /\ Len(bitmap'.data) = width * height
          /\ \A j \in DOMAIN bitmap.data :
               /\ j = y * width + x + 1 => bitmap'.data[j] = hist'[Len(hist')].color
               /\ j # y * width + x + 1 => bitmap'.data[j] = bitmap.data[j]
               /\ j > y * width + x + 1 => bitmap'.data[j] = White
     /\ (pc = "done" /\ pc' = "idle") =>
          /\ Len(hist) = width * height
          /\ live' /\ last'.res = "ok"
          /\ bmp'.width = width /\ bmp'.height = height
          /\ Len(bmp'.data) = width * height
          /\ \A i \in 1..(width * height) :
               /\ hist[i].x = (i - 1) % width /\ hist[i].y = (i - 1) \div width
               /\ bmp'.data[i] = hist[i].color]_vars

\* the largest image converted and returned, no cell of it White
AllAssignedSeen ==
  /\ last.op = "render_svg_to_bitmap" /\ last.res = "ok" /\ live
  /\ bmp.width = MaxImgW /\ bmp.height = MaxImgH
  /\ \A i \in DOMAIN bmp.data : bmp.data[i] # White

\* ------------------------------------------------------------ properties
\* of the request handlers (specification SpecHandler)

\* C19: a bitmap is created filled with White, changes one pixel at a time
\* while it is being converted, and is not written once the handler holds
\* it: to_bytes leaves it as it is and nothing changes it after to_bytes.
BitmapLifecycle ==
  [][/\ (pc = "idle" /\ pc' = "loop") =>
          \A i \in DOMAIN bitmap'.data : bitmap'.data[i] = White
     /\ (pc = "loop" /\ pc' # "idle") =>
          /\ bitmap'.width = bitmap.width /\ bitmap'.height = bitmap.height
          /\ Len(bitmap'.data) = Len(bitmap.data)
          /\ Cardinality({i \in DOMAIN bitmap.data : bitmap'.data[i] # bitmap.data[i]}) <= 1
     /\ (live /\ live') => bmp' = bmp
     /\ last'.op = "to_bytes" => (bmp' = bmp /\ bytes' = to_bytes(bmp))
     /\ (last.op = "to_bytes" /\ live) => (bmp' = bmp \/ ~live')]_vars

\* a converted bitmap with a pixel that is not White, serialized
SerializedSeen ==
  /\ last.op = "to_bytes" /\ live
  /\ Len(bytes) = 8 + HandlerW * HandlerH
  /\ \A i \in DOMAIN bmp.data : bmp.data[i] = Red

\* C29: every request to a bitmap endpoint is answered with a well-formed
\* EPBM body of exactly 8 + width*height bytes for the handler's fixed width
\* and height: never with an error, never without a body.
AlwaysEpbmBody ==
  [][last'.op = "respond" =>
       /\ last'.res = "ok"
       /\ Len(bytes) = 8 + HandlerW * HandlerH
       /\ decode_header(bytes).magic = <<69, 80, 66, 77>>
       /\ decode_header(bytes).width = HandlerW
       /\ decode_header(bytes).height = HandlerH
       /\ \A i \in 9..Len(bytes) : bytes[i] \in 0..5]_vars

\* ------------------------------------------------------------ properties
\* of the quantizer (specification SpecQuant)

\* C11: for every input RGB triple the quantizer returns one of the six
\* palette colours, an index in 0..5.
QuantizerInPalette ==
  quant.color \in {Black, White, Green, Blue, Red, Yellow} /\ quant.color \in 0..5

\* a colour that is no palette colour, quantized to the last palette colour
QuantizedOffPalette ==
  /\ quant.rgb # <<>>
  /\ \A c \in 1..6 : quant.rgb # PALETTE[c]
  /\ quant.color = Yellow

\* C18: when two or more palette entries are at the same minimal distance
\* from the input colour, the quantizer returns the one with the lowest
\* palette index.
TieLowestIndex ==
  quant.dist # <<>> =>
    /\ \A i \in 1..6 : quant.dist[quant.color + 1] <= quant.dist[i]
    /\ \A i \in 1..6 :
         quant.dist[i] = quant.dist[quant.color + 1] => quant.color + 1 <= i

\* three entries at the minimal distance, none of them the first
TieSeen ==
  /\ quant.dist # <<>>
  /\ quant.color > 0
  /\ Cardinality({i \in 1..6 : quant.dist[i] = quant.dist[quant.color + 1]}) = 3

\* ------------------------------------------------------------ properties
\* of debug decoding (specification SpecPng)

\* C16: debug decoding maps every byte v < 6 to the palette RGB triple of
\* index v and every byte v >= 6 to gray (128,128,128), failing on no byte;
\* the output has one pixel of alpha 255 per cell, at the cell's row-major
\* position.  (The call fails for a bitmap without cells, whatever the bytes.)
DebugDecodeTotal ==
  png.called =>
    /\ png.ok <=> (png.bitmap.width > 0 /\ png.bitmap.height > 0)
    /\ png.ok =>
         /\ Len(png.pixels) = png.bitmap.width * png.bitmap.height
         /\ \A py \in 0..(png.bitmap.height - 1), px \in 0..(png.bitmap.width - 1) :
              LET v == png.bitmap.data[py * png.bitmap.width + px + 1]
                  out == png.pixels[py * png.bitmap.width + px + 1]
              IN  /\ out[4] = 255
                  /\ v < 6 => <<out[1], out[2], out[3]>> = PALETTE[v + 1]
                  /\ v >= 6 => <<out[1], out[2], out[3]>> = <<128, 128, 128>>

\* a decoded buffer whose last cell holds a byte past the palette and whose
\* other cells hold Yellow
DebugDecodeSentinelSeen ==
  /\ png.called /\ png.ok
  /\ png.bitmap.width = MaxPngW /\ png.bitmap.height = MaxPngH
  /\ png.bitmap.data[1] = Yellow
  /\ png.bitmap.data[Len(png.bitmap.data)] = 6
  /\ png.pixels[Len(png.pixels)] = <<128, 128, 128, 255>>

\* ------------------------------------------------------------ properties
\* of conversions running at once (specification SpecPar)

\* C14: each conversion starts its pixel loop with an error grid of zeros and
\* a bitmap of its own, and two conversions of different images interleaved
\* in any way each return the bitmap they return when run alone.
ConversionsIndependent ==
  /\ ~panic
  /\ \A t \in Threads :
       /\ (par.th[t].pc = "loop" /\ par.th[t].x = 0 /\ par.th[t].y = 0) =>
            /\ par.th[t].errors = [r \in 1..ParH |-> [c \in 1..ParW |-> <<0, 0, 0>>]]
            /\ par.th[t].bitmap.data = [i \in 1..(ParW * ParH) |-> White]
       /\ par.th[t].pc = "returned" =>
            par.th[t].bitmap = Convert(par.th[t].pixmap, ParW, ParH)

\* both threads have returned after converting different images, each having
\* run while the other was inside its pixel loop
ConvertedAtOnce ==
  /\ \A t \in Threads : par.th[t].pc = "returned" /\ par.th[t].overlap
  /\ par.th[1].pixmap # par.th[2].pixmap
  /\ par.th[1].bitmap # par.th[2].bitmap

\* ------------------------------------------------------------ properties
\* of requests served at once (specification SpecRequests)

\* C30: whatever the interleaving of two requests to one endpoint, the
\* conversion of a request reads the SVG text that the same request
\* generated, and the bitmap returned for it is the conversion of the
\* rendering of that text.
OwnSvgRendered ==
  \A t \in Threads :
    req.h[t].pc \in {"read", "converted", "responded"} =>
      /\ req.h[t].svg_data = req.h[t].svg_content
      /\ req.h[t].pc \in {"converted", "responded"} =>
           req.h[t].bitmap = Convert(Rendered(req.h[t].svg_content), ParW, ParH)

====
